---------------------------- MODULE Spec2Model ----------------------------
(***************************************************************************)
(* A model of aitoolkit's goal oriented action planner                     *)
(* (include/aitoolkit/goap.hpp): the planner() search loop with its        *)
(* priority queue, closed set and node tree, and the plan object consumed  *)
(* by run_next.  Action costs are floats in the source; the model uses     *)
(* small integers, on which float addition and comparison are exact.       *)
(* It also models the two state machines of include/aitoolkit/fsm.hpp,     *)
(* simple_machine and stack_machine, driven with the states of             *)
(* tests/fsm.spec.cpp, the behaviour tree nodes of                         *)
(* include/aitoolkit/behtree.hpp and the utility evaluator of              *)
(* include/aitoolkit/utility.hpp.                                          *)
(***************************************************************************)
EXTENDS Integers, Sequences, FiniteSets, TLC

(***************************************************************************)
(* Bounds of the model.                                                    *)
(***************************************************************************)
MaxWood == 3
MaxActions == 2
MaxBudget == 3
MaxExtraCalls == 2
\* The number of nodes the allocator can hold: more than any search that ends
\* needs, so that only a search that never ends runs out of memory.
MaxNodes == 2048
\* The deepest stack the caller of stack_machine builds.
MaxStack == 3
\* The longest list of children of a behaviour tree's seq or sel.
MaxChildren == 3
\* How many times the caller evaluates its behaviour tree.
MaxTicks == 2
\* The longest action list of a utility evaluator, and the largest score.
MaxChoices == 3
MaxScore == 2
\* How many times the caller runs its utility evaluator.
MaxRuns == 2

(***************************************************************************)
(* Program constants of the test scenario (tests/goap.spec.cpp).           *)
(***************************************************************************)
StorageWood == 10
TestBudget == 1000

\* An absent upper bound of a precondition; <<n>> is the bound n.
NoBound == <<>>
NoAction == 0
NoParent == 0

VARIABLES
  actions,         \* planner argument: the action list
  initial,         \* planner argument: initital_blackboard
  goal,            \* planner argument: goal_blackboard
  max_iterations,  \* planner argument
  nodes,           \* every node_type made by make_shared, in allocation order
  open_set,        \* the priority queue's underlying vector, of node ids
  closed_set,      \* std::unordered_set<T>
  iteration,       \* the loop counter
  pc,              \* "search" while planner runs, "returned" once it has returned
                   \* a plan, "bad_alloc" once make_shared has thrown, "idle"
                   \* for a caller that never calls planner
  m_plan,          \* plan::m_plan, top of the stack first
  m_actions,       \* plan::m_actions
  blackboard,      \* the caller's blackboard handed to run_next
  applied,         \* action indices applied by run_next, in call order
  calls,           \* how often each virtual of action<T> was called
  pops,            \* how many nodes were popped from open_set
  found,           \* id of the popped node that equalled the goal, or NoParent
  run_calls,       \* how many times the caller called run_next
  first_call,      \* <<>>, or <<r>> with r the arguments and the result of an
                   \* earlier planner() call of the same caller
  m_current_state, \* simple_machine::m_current_state
  m_paused,        \* simple_machine::m_paused
  m_state_stack,   \* stack_machine::m_state_stack, the back of the vector last
  fsm_blackboard,  \* the blackboard handed to the machines' methods
  op,              \* the machine method called last, with its state argument
  hooks,           \* the hooks of state<T> that call made, in call order
  last_hook,       \* for each state, the hook of its life cycle it got last
  root,            \* the behaviour tree the caller built and evaluates
  bt_blackboard,   \* the blackboard handed to the tree's evaluate
  bt_state,        \* what the root's evaluate returned last, or NoState
  trace,           \* the nodes that evaluate call evaluated, as <<path, state>>
                   \* in the order they returned
  ticks,           \* how many times the caller evaluated the tree
  evaluator,       \* utility evaluator::m_actions
  utility_blackboard, \* the blackboard handed to evaluator::run
  utility_calls,   \* the score and apply calls the last run made, in call order
  runs             \* how many times the caller ran the evaluator

fsm_vars == <<m_current_state, m_paused, m_state_stack, fsm_blackboard, op, hooks,
              last_hook>>

behtree_vars == <<root, bt_blackboard, bt_state, trace, ticks>>

utility_vars == <<evaluator, utility_blackboard, utility_calls, runs>>

goap_vars == <<actions, initial, goal, max_iterations, nodes, open_set, closed_set,
               iteration, pc, m_plan, m_actions, blackboard, applied, calls, pops,
               found, run_calls, first_call>>

vars == <<goap_vars, fsm_vars, behtree_vars, utility_vars>>

(***************************************************************************)
(* The blackboard of the tests: five fields take part in operator==,       *)
(* plan_order does not.                                                    *)
(***************************************************************************)
Blackboard(st, w, f, g, s) ==
  [have_storage |-> st, wood |-> w, food |-> f, gold |-> g, stone |-> s,
   plan_order |-> <<>>]

BlackboardEq(a, b) ==
  /\ a.have_storage = b.have_storage
  /\ a.wood = b.wood
  /\ a.food = b.food
  /\ a.gold = b.gold
  /\ a.stone = b.stone

(***************************************************************************)
(* An action<T> subclass, described by what its three virtuals do.         *)
(*   need      "any", "yes" or "no": the have_storage it requires          *)
(*   lo, hi    wood must be >= lo and, if hi = <<n>>, <= n                 *)
(*   food_hi   if food_hi = <<n>>, food must be <= n                       *)
(*   d_*       what apply_effects adds to each field                       *)
(*   commit_d_wood   what it adds to wood when dry_run is false            *)
(*   base, per_wood  cost(bb) = base + per_wood * bb.wood                  *)
(***************************************************************************)
Action(tag, need, lo, hi, food_hi, dw, df, dg, ds, build, base, per_wood) ==
  [tag |-> tag, need |-> need, lo |-> lo, hi |-> hi, food_hi |-> food_hi,
   d_wood |-> dw, commit_d_wood |-> dw, d_food |-> df, d_gold |-> dg,
   d_stone |-> ds, build |-> build, base |-> base, per_wood |-> per_wood]

cost(a, bb) == a.base + a.per_wood * bb.wood

check_preconditions(a, bb) ==
  /\ a.need = "yes" => bb.have_storage
  /\ a.need = "no" => ~bb.have_storage
  /\ bb.wood >= a.lo
  /\ \A k \in 1..Len(a.hi) : bb.wood <= a.hi[k]
  /\ \A k \in 1..Len(a.food_hi) : bb.food <= a.food_hi[k]

apply_effects(a, bb, dry_run) ==
  [have_storage |-> bb.have_storage \/ a.build,
   wood |-> bb.wood + (IF dry_run THEN a.d_wood ELSE a.commit_d_wood),
   food |-> bb.food + a.d_food,
   gold |-> bb.gold + a.d_gold,
   stone |-> bb.stone + a.d_stone,
   plan_order |-> Append(bb.plan_order, a.tag)]

\* The five actions of tests/goap.spec.cpp.
chop_wood == Action("W", "any", 0, NoBound, NoBound, 1, 0, 0, 0, FALSE, 1, 0)
build_storage ==
  Action("B", "no", StorageWood, NoBound, NoBound, 0 - StorageWood, 0, 0, 0, TRUE, 1, 0)
gather_food == Action("F", "yes", 0, NoBound, NoBound, 0, 1, 0, 0, FALSE, 1, 0)
mine_gold == Action("G", "yes", 0, NoBound, NoBound, 0, 0, 1, 0, FALSE, 1, 0)
mine_stone == Action("S", "yes", 0, NoBound, NoBound, 0, 0, 0, 1, FALSE, 1, 0)

TestActions == <<chop_wood, build_storage, gather_food, mine_gold, mine_stone>>

(***************************************************************************)
(* std::priority_queue<node_ptr, std::vector<node_ptr>, node_compare>:     *)
(* a binary heap in a vector, kept by push_heap and pop_heap.  Positions   *)
(* are counted from 0 as in the library; h[i + 1] is the element at i.     *)
(***************************************************************************)
node_compare_less(ns, a, b) == ns[a].cost < ns[b].cost

node_compare(ns, a, b) == ns[a].cost > ns[b].cost

RECURSIVE push_heap(_, _, _, _, _)
push_heap(ns, h, hole, top, value) ==
  LET parent == (hole - 1) \div 2 IN
  IF hole > top /\ node_compare(ns, h[parent + 1], value)
  THEN push_heap(ns, [h EXCEPT ![hole + 1] = h[parent + 1]], parent, top, value)
  ELSE [h EXCEPT ![hole + 1] = value]

RECURSIVE adjust_heap(_, _, _, _, _)
adjust_heap(ns, h, hole, len, value) ==
  IF hole < (len - 1) \div 2
  THEN LET right == 2 * (hole + 1)
           child == IF node_compare(ns, h[right + 1], h[right]) THEN right - 1 ELSE right
       IN adjust_heap(ns, [h EXCEPT ![hole + 1] = h[child + 1]], child, len, value)
  ELSE IF len % 2 = 0 /\ hole = (len - 2) \div 2
  THEN LET child == 2 * (hole + 1) - 1
       IN push_heap(ns, [h EXCEPT ![hole + 1] = h[child + 1]], child, 0, value)
  ELSE push_heap(ns, h, hole, 0, value)

\* open_set.push(n)
queue_push(ns, h, n) == push_heap(ns, Append(h, n), Len(h), 0, n)

\* open_set.top()
queue_top(h) == h[1]

\* open_set.pop()
queue_pop(ns, h) ==
  LET n == Len(h) IN
  IF n <= 1 THEN <<>>
  ELSE SubSeq(adjust_heap(ns, [h EXCEPT ![n] = h[1]], 0, n - 1, h[n]), 1, n - 1)

\* Membership by comparing every field of the blackboard, plan_order too.
closed_contains_fields(cl, bb) == bb \in cl

\* closed_set.contains(bb): membership up to operator==
closed_contains(cl, bb) == \E c \in cl : BlackboardEq(c, bb)

(***************************************************************************)
(* fsm.hpp.  A state_ptr is nullptr or points to a state_dummy of          *)
(* tests/fsm.spec.cpp, which is known by its m_val; each of its five hooks *)
(* writes m_val to the blackboard field of the hook's name.                *)
(***************************************************************************)
nullptr == 0
StateVals == {1, 2, 3}
StatePtrs == StateVals \cup {nullptr}

FsmBlackboard == [enter |-> 0, exit |-> 0, pause |-> 0, resume |-> 0, update |-> 0]

state_enter(m_val, bb) == [bb EXCEPT !.enter = m_val]
state_exit(m_val, bb) == [bb EXCEPT !.exit = m_val]
state_pause(m_val, bb) == [bb EXCEPT !.pause = m_val]
state_resume(m_val, bb) == [bb EXCEPT !.resume = m_val]
state_update(m_val, bb) == [bb EXCEPT !.update = m_val]

\* state->hook(blackboard): the virtual call, noted in the call's list of hooks.
call(st, hook, state) ==
  [bb |-> CASE hook = "enter" -> state_enter(state, st.bb)
            [] hook = "exit" -> state_exit(state, st.bb)
            [] hook = "pause" -> state_pause(state, st.bb)
            [] hook = "resume" -> state_resume(state, st.bb)
            [] hook = "update" -> state_update(state, st.bb),
   hooks |-> Append(st.hooks, <<hook, state>>)]

\* A method of a machine is entered with the caller's blackboard.
entered == [bb |-> fsm_blackboard, hooks |-> <<>>]

\* What the states saw of their life cycle: the hook other than update that
\* each state got last, once the calls hs are made after those of last.
RECURSIVE received_from(_, _)
received_from(last, hs) ==
  IF hs = <<>> THEN last
  ELSE received_from(IF Head(hs)[1] = "update" THEN last
                     ELSE [last EXCEPT ![Head(hs)[2]] = Head(hs)[1]],
                     Tail(hs))

received(hs) == received_from(last_hook, hs)

\* Both machines as their constructors leave them, and a fresh blackboard.
NewMachines ==
  /\ m_current_state = nullptr
  /\ m_paused = FALSE
  /\ m_state_stack = <<>>
  /\ fsm_blackboard = FsmBlackboard
  /\ op = <<>>
  /\ hooks = <<>>
  /\ last_hook = [s \in StateVals |-> "none"]

(***************************************************************************)
(* simple_machine                                                          *)
(***************************************************************************)
\* set_state that enters the new state before it exits the old one.
set_state_enter_first ==
  \E state \in StatePtrs :
    LET st1 == IF state # nullptr THEN call(entered, "enter", state) ELSE entered
        st2 == IF state # nullptr /\ m_paused THEN call(st1, "pause", state) ELSE st1
        st3 == IF m_current_state # nullptr
               THEN call(st2, "exit", m_current_state) ELSE st2
    IN /\ m_current_state' = state
       /\ fsm_blackboard' = st3.bb
       /\ hooks' = st3.hooks
       /\ last_hook' = received(st3.hooks)
       /\ op' = <<"set_state", state>>
       /\ UNCHANGED <<m_paused, m_state_stack, goap_vars, behtree_vars,
                 utility_vars>>

set_state ==
  \E state \in StatePtrs :
    LET st1 == IF m_current_state # nullptr
               THEN call(entered, "exit", m_current_state) ELSE entered
        st2 == IF state # nullptr THEN call(st1, "enter", state) ELSE st1
        st3 == IF state # nullptr /\ m_paused THEN call(st2, "pause", state) ELSE st2
    IN /\ m_current_state' = state
       /\ fsm_blackboard' = st3.bb
       /\ hooks' = st3.hooks
       /\ last_hook' = received(st3.hooks)
       /\ op' = <<"set_state", state>>
       /\ UNCHANGED <<m_paused, m_state_stack, goap_vars, behtree_vars,
                 utility_vars>>

\* pause that does nothing at all on a machine without a state.
pause_with_state_only ==
  LET st1 == IF m_current_state # nullptr
             THEN call(entered, "pause", m_current_state) ELSE entered
  IN /\ m_paused' = (m_paused \/ m_current_state # nullptr)
     /\ fsm_blackboard' = st1.bb
     /\ hooks' = st1.hooks
     /\ last_hook' = received(st1.hooks)
     /\ op' = <<"pause">>
     /\ UNCHANGED <<m_current_state, m_state_stack, goap_vars, behtree_vars,
                 utility_vars>>

pause ==
  LET st1 == IF m_current_state # nullptr
             THEN call(entered, "pause", m_current_state) ELSE entered
  IN /\ m_paused' = TRUE
     /\ fsm_blackboard' = st1.bb
     /\ hooks' = st1.hooks
     /\ last_hook' = received(st1.hooks)
     /\ op' = <<"pause">>
     /\ UNCHANGED <<m_current_state, m_state_stack, goap_vars, behtree_vars,
                 utility_vars>>

resume ==
  LET st1 == IF m_current_state # nullptr
             THEN call(entered, "resume", m_current_state) ELSE entered
  IN /\ m_paused' = FALSE
     /\ fsm_blackboard' = st1.bb
     /\ hooks' = st1.hooks
     /\ last_hook' = received(st1.hooks)
     /\ op' = <<"resume">>
     /\ UNCHANGED <<m_current_state, m_state_stack, goap_vars, behtree_vars,
                 utility_vars>>

\* update without the early return of a paused machine.
update_while_paused ==
  LET st1 == IF m_current_state # nullptr
             THEN call(entered, "update", m_current_state) ELSE entered
  IN /\ fsm_blackboard' = st1.bb
     /\ hooks' = st1.hooks
     /\ last_hook' = received(st1.hooks)
     /\ op' = <<"update">>
     /\ UNCHANGED <<m_current_state, m_paused, m_state_stack, goap_vars, behtree_vars,
                 utility_vars>>

update ==
  LET st1 == IF ~m_paused /\ m_current_state # nullptr
             THEN call(entered, "update", m_current_state) ELSE entered
  IN /\ fsm_blackboard' = st1.bb
     /\ hooks' = st1.hooks
     /\ last_hook' = received(st1.hooks)
     /\ op' = <<"update">>
     /\ UNCHANGED <<m_current_state, m_paused, m_state_stack, goap_vars, behtree_vars,
                 utility_vars>>

(***************************************************************************)
(* stack_machine.  The caller stops pushing at MaxStack states.            *)
(***************************************************************************)
back(stack) == stack[Len(stack)]
pop_back(stack) == SubSeq(stack, 1, Len(stack) - 1)

\* push_state that puts the new state under the others.
push_state_front ==
  \E state \in StatePtrs :
    /\ state # nullptr => Len(m_state_stack) < MaxStack
    /\ LET st1 == IF m_state_stack # <<>>
                  THEN call(entered, "pause", back(m_state_stack)) ELSE entered
           st2 == IF state # nullptr THEN call(st1, "enter", state) ELSE st1
       IN /\ m_state_stack' = IF state # nullptr
                              THEN <<state>> \o m_state_stack ELSE m_state_stack
          /\ fsm_blackboard' = st2.bb
          /\ hooks' = st2.hooks
          /\ last_hook' = received(st2.hooks)
          /\ op' = <<"push_state", state>>
          /\ UNCHANGED <<m_current_state, m_paused, goap_vars, behtree_vars,
                 utility_vars>>

push_state ==
  \E state \in StatePtrs :
    /\ state # nullptr => Len(m_state_stack) < MaxStack
    /\ LET st1 == IF m_state_stack # <<>>
                  THEN call(entered, "pause", back(m_state_stack)) ELSE entered
           st2 == IF state # nullptr THEN call(st1, "enter", state) ELSE st1
       IN /\ m_state_stack' = IF state # nullptr
                              THEN Append(m_state_stack, state) ELSE m_state_stack
          /\ fsm_blackboard' = st2.bb
          /\ hooks' = st2.hooks
          /\ last_hook' = received(st2.hooks)
          /\ op' = <<"push_state", state>>
          /\ UNCHANGED <<m_current_state, m_paused, goap_vars, behtree_vars,
                 utility_vars>>

\* pop_state that resumes the state below before it exits the top one.
pop_state_resume_first ==
  LET rest == IF m_state_stack # <<>> THEN pop_back(m_state_stack) ELSE m_state_stack
      st1 == IF rest # <<>> THEN call(entered, "resume", back(rest)) ELSE entered
      st2 == IF m_state_stack # <<>>
             THEN call(st1, "exit", back(m_state_stack)) ELSE st1
  IN /\ m_state_stack' = rest
     /\ fsm_blackboard' = st2.bb
     /\ hooks' = st2.hooks
     /\ last_hook' = received(st2.hooks)
     /\ op' = <<"pop_state">>
     /\ UNCHANGED <<m_current_state, m_paused, goap_vars, behtree_vars,
                 utility_vars>>

pop_state ==
  LET st1 == IF m_state_stack # <<>>
             THEN call(entered, "exit", back(m_state_stack)) ELSE entered
      rest == IF m_state_stack # <<>> THEN pop_back(m_state_stack) ELSE m_state_stack
      st2 == IF rest # <<>> THEN call(st1, "resume", back(rest)) ELSE st1
  IN /\ m_state_stack' = rest
     /\ fsm_blackboard' = st2.bb
     /\ hooks' = st2.hooks
     /\ last_hook' = received(st2.hooks)
     /\ op' = <<"pop_state">>
     /\ UNCHANGED <<m_current_state, m_paused, goap_vars, behtree_vars,
                 utility_vars>>

\* update that goes through the whole stack, the bottom state first.
RECURSIVE update_all(_, _, _)
update_all(st, stack, i) ==
  IF i > Len(stack) THEN st ELSE update_all(call(st, "update", stack[i]), stack, i + 1)

stack_machine_update_all ==
  LET st1 == update_all(entered, m_state_stack, 1)
  IN /\ fsm_blackboard' = st1.bb
     /\ hooks' = st1.hooks
     /\ last_hook' = received(st1.hooks)
     /\ op' = <<"update">>
     /\ UNCHANGED <<m_current_state, m_paused, m_state_stack, goap_vars, behtree_vars,
                 utility_vars>>

stack_machine_update ==
  LET st1 == IF m_state_stack # <<>>
             THEN call(entered, "update", back(m_state_stack)) ELSE entered
  IN /\ fsm_blackboard' = st1.bb
     /\ hooks' = st1.hooks
     /\ last_hook' = received(st1.hooks)
     /\ op' = <<"update">>
     /\ UNCHANGED <<m_current_state, m_paused, m_state_stack, goap_vars, behtree_vars,
                 utility_vars>>

(***************************************************************************)
(* behtree.hpp.  A node is known by its class (kind), its callback (fn,    *)
(* for task and check) and its children.  The callbacks are those of       *)
(* tests/behtree.spec.cpp: a task counts itself in the blackboard and      *)
(* returns a fixed state, a check returns a fixed truth value; one more    *)
(* check reads the blackboard.  evaluate is handed the path of its node    *)
(* from the root and what was done so far, st = [bb, trace].               *)
(***************************************************************************)
execution_state == {"success", "failure", "running"}
NoState == "none"

BtBlackboard == [node_count |-> 0]

Node(kind, fn, children) == [kind |-> kind, fn |-> fn, m_children |-> children]
task(fn) == Node("task", fn, <<>>)
check(fn) == Node("check", fn, <<>>)
\* neg<T>(child).  The constructor template neg(N&& child) wraps the child;
\* for a child that is itself a neg the implicit move constructor neg(neg&&)
\* is the better match (or the copy is elided): the new node is the child,
\* moved, and not a neg of it.
neg(child) == IF child.kind = "neg" THEN child ELSE Node("neg", "", <<child>>)
seq(children) == Node("seq", "", children)
sel(children) == Node("sel", "", children)
\* A neg another node was move-constructed from: node(node&&) took its child.
moved_from_neg == Node("neg", "", <<>>)

\* The callback of a task: blackboard.node_count++; return fn.
task_fn(fn, bb) == [bb |-> [bb EXCEPT !.node_count = @ + 1], state |-> fn]

\* The callback of a check.
check_fn(fn, bb) ==
  CASE fn = "true" -> TRUE
    [] fn = "false" -> FALSE
    [] fn = "untouched" -> bb.node_count = 0

\* A node returns state: the call is noted with the node's path.
return(path, state, st) ==
  [state |-> state, bb |-> st.bb, trace |-> Append(st.trace, <<path, state>>)]

RECURSIVE evaluate(_, _, _)

\* seq that goes on after a running child as after a successful one.
RECURSIVE seq_evaluate_past_running(_, _, _, _)
seq_evaluate_past_running(n, path, st, i) ==
  IF i > Len(n.m_children) THEN [state |-> "success", bb |-> st.bb, trace |-> st.trace]
  ELSE LET r == evaluate(n.m_children[i], Append(path, i), st)
       IN IF r.state = "failure" THEN r
          ELSE seq_evaluate_past_running(n, path, r, i + 1)

\* seq::evaluate from its child i on; the result is the state to return.
RECURSIVE seq_evaluate(_, _, _, _)
seq_evaluate(n, path, st, i) ==
  IF i > Len(n.m_children) THEN [state |-> "success", bb |-> st.bb, trace |-> st.trace]
  ELSE LET r == evaluate(n.m_children[i], Append(path, i), st)
       IN IF r.state # "success" THEN r
          ELSE seq_evaluate(n, path, r, i + 1)

\* sel that goes on after a running child as after a failed one.
RECURSIVE sel_evaluate_past_running(_, _, _, _)
sel_evaluate_past_running(n, path, st, i) ==
  IF i > Len(n.m_children) THEN [state |-> "failure", bb |-> st.bb, trace |-> st.trace]
  ELSE LET r == evaluate(n.m_children[i], Append(path, i), st)
       IN IF r.state = "success" THEN r
          ELSE sel_evaluate_past_running(n, path, r, i + 1)

\* sel::evaluate from its child i on.
RECURSIVE sel_evaluate(_, _, _, _)
sel_evaluate(n, path, st, i) ==
  IF i > Len(n.m_children) THEN [state |-> "failure", bb |-> st.bb, trace |-> st.trace]
  ELSE LET r == evaluate(n.m_children[i], Append(path, i), st)
       IN IF r.state # "failure" THEN r
          ELSE sel_evaluate(n, path, r, i + 1)

\* neg that turns running into failure.
neg_evaluate_no_running(n, path, st) ==
  IF Len(n.m_children) # 1
  THEN [state |-> "failure", bb |-> st.bb, trace |-> st.trace]
  ELSE LET r == evaluate(n.m_children[1], Append(path, 1), st)
       IN [r EXCEPT !.state = IF r.state = "failure" THEN "success" ELSE "failure"]

\* neg::evaluate
neg_evaluate(n, path, st) ==
  IF Len(n.m_children) # 1
  THEN [state |-> "failure", bb |-> st.bb, trace |-> st.trace]
  ELSE LET r == evaluate(n.m_children[1], Append(path, 1), st)
       IN [r EXCEPT !.state = CASE r.state = "success" -> "failure"
                                [] r.state = "failure" -> "success"
                                [] OTHER -> r.state]

\* check::evaluate
check_evaluate(n, path, st) ==
  [state |-> IF check_fn(n.fn, st.bb) THEN "success" ELSE "failure",
   bb |-> st.bb, trace |-> st.trace]

\* task::evaluate
task_evaluate(n, path, st) ==
  LET r == task_fn(n.fn, st.bb)
  IN [state |-> r.state, bb |-> r.bb, trace |-> st.trace]

\* node->evaluate(blackboard): the virtual call.
evaluate(n, path, st) ==
  LET r == CASE n.kind = "seq" -> seq_evaluate(n, path, st, 1)
             [] n.kind = "sel" -> sel_evaluate(n, path, st, 1)
             [] n.kind = "neg" -> neg_evaluate(n, path, st)
             [] n.kind = "check" -> check_evaluate(n, path, st)
             [] n.kind = "task" -> task_evaluate(n, path, st)
  IN return(path, r.state, r)

\* The caller evaluates its tree once more, with its blackboard.
tick ==
  /\ root # <<>>
  /\ ticks < MaxTicks
  /\ LET r == evaluate(root, <<>>, [bb |-> bt_blackboard, trace |-> <<>>])
     IN /\ bt_state' = r.state
        /\ bt_blackboard' = r.bb
        /\ trace' = r.trace
  /\ ticks' = ticks + 1
  /\ UNCHANGED <<root, goap_vars, fsm_vars, utility_vars>>

\* No tree was built.
NoTree ==
  /\ root = <<>>
  /\ bt_blackboard = BtBlackboard
  /\ bt_state = NoState
  /\ trace = <<>>
  /\ ticks = 0

(***************************************************************************)
(* utility.hpp.  An action is known by the score it returns and by the     *)
(* effect its apply writes to the blackboard, as the three actions of      *)
(* tests/utility.spec.cpp are.  A float is written as twice its value, a   *)
(* score being a whole number: this leaves room, between 0 and the score   *)
(* 1, for the smallest positive float.                                     *)
(***************************************************************************)
Float(n) == 2 * n
\* std::numeric_limits<float>::min(), the smallest positive normal float.
float_min == 1

effect == {"a", "b", "c"}

UtilityAction(s, e) == [score |-> Float(s), effect |-> e]
score(action, bb) == action.score
apply(action, bb) == [bb EXCEPT !.e = action.effect]

\* The for loop of evaluator::run from action i on; st = [best_score,
\* best_action, calls], best_action being an index of m_actions.
RECURSIVE run_loop(_, _, _, _)
run_loop(m_acts, bb, st, i) ==
  IF i > Len(m_acts) THEN st
  ELSE LET s == score(m_acts[i], bb)
           noted == Append(st.calls, <<"score", i>>)
       IN run_loop(m_acts, bb,
                   IF s > st.best_score
                   THEN [best_score |-> s, best_action |-> i, calls |-> noted]
                   ELSE [st EXCEPT !.calls = noted],
                   i + 1)

\* evaluator::run
run ==
  /\ runs < MaxRuns
  /\ runs' = runs + 1
  /\ IF evaluator = <<>>
     THEN /\ utility_calls' = <<>>
          /\ UNCHANGED utility_blackboard
     ELSE LET st == run_loop(evaluator, utility_blackboard,
                             [best_score |-> float_min, best_action |-> 1,
                              calls |-> <<>>], 1)
          IN /\ utility_blackboard' = apply(evaluator[st.best_action], utility_blackboard)
             /\ utility_calls' = Append(st.calls, <<"apply", st.best_action>>)
  /\ UNCHANGED <<evaluator, goap_vars, fsm_vars, behtree_vars>>

\* No evaluator was built.
NoEvaluator ==
  /\ evaluator = <<>>
  /\ utility_blackboard = [e |-> "a"]
  /\ utility_calls = <<>>
  /\ runs = 0

(***************************************************************************)
(* planner(): the body of one loop iteration for the popped node, split    *)
(* into the path reconstruction and the expansion of the action list.      *)
(***************************************************************************)
\* Takes the action of the node it has just moved to: the last step is lost.
RECURSIVE build_plan_moved(_, _, _)
build_plan_moved(ns, n, stack) ==
  IF ns[n].parent # NoParent /\ ns[ns[n].parent].parent # NoParent
  THEN build_plan_moved(ns, ns[n].parent, <<ns[ns[n].parent].action_taken_idx>> \o stack)
  ELSE stack

\* Collects the indices in a queue: the goal's step comes out first.
RECURSIVE build_plan_queue(_, _, _)
build_plan_queue(ns, n, stack) ==
  IF ns[n].parent # NoParent
  THEN build_plan_queue(ns, ns[n].parent, Append(stack, ns[n].action_taken_idx))
  ELSE stack

RECURSIVE build_plan(_, _, _)
build_plan(ns, n, stack) ==
  IF ns[n].parent # NoParent
  THEN build_plan(ns, ns[n].parent, <<ns[n].action_taken_idx>> \o stack)
  ELSE stack
\* The expansion that applies the effects for good: dry_run = false.
RECURSIVE expand_commit(_, _, _, _, _)
expand_commit(acts, current, cl, action_idx, st) ==
  IF action_idx > Len(acts) \/ st.thrown THEN st
  ELSE
    LET action == acts[action_idx]
        bb == st.nodes[current].blackboard
    IN
    IF check_preconditions(action, bb)
    THEN LET next_blackboard == apply_effects(action, bb, FALSE)
             next_cost == st.nodes[current].cost + cost(action, bb)
             c == [st.calls EXCEPT !.check = @ + 1, !.commit = @ + 1, !.cost = @ + 1]
         IN
         IF ~closed_contains(cl, next_blackboard)
         THEN IF Len(st.nodes) >= MaxNodes
              THEN [st EXCEPT !.calls = c, !.thrown = TRUE]
              ELSE LET ns == Append(st.nodes, [blackboard |-> next_blackboard,
                                               cost |-> next_cost,
                                               action_taken_idx |-> action_idx,
                                               parent |-> current])
                   IN expand_commit(acts, current, cl, action_idx + 1,
                             [nodes |-> ns,
                              open_set |-> queue_push(ns, st.open_set, Len(ns)),
                              calls |-> c,
                              thrown |-> FALSE])
         ELSE expand_commit(acts, current, cl, action_idx + 1, [st EXCEPT !.calls = c])
    ELSE expand_commit(acts, current, cl, action_idx + 1,
                [st EXCEPT !.calls.check = @ + 1])

\* The expansion that pushes through an action whatever its preconditions.
RECURSIVE expand_unchecked(_, _, _, _, _)
expand_unchecked(acts, current, cl, action_idx, st) ==
  IF action_idx > Len(acts) \/ st.thrown THEN st
  ELSE
    LET action == acts[action_idx]
        bb == st.nodes[current].blackboard
    IN
    IF TRUE \/ check_preconditions(action, bb)
    THEN LET next_blackboard == apply_effects(action, bb, TRUE)
             next_cost == st.nodes[current].cost + cost(action, bb)
             c == [st.calls EXCEPT !.check = @ + 1, !.dry = @ + 1, !.cost = @ + 1]
         IN
         IF ~closed_contains(cl, next_blackboard)
         THEN IF Len(st.nodes) >= MaxNodes
              THEN [st EXCEPT !.calls = c, !.thrown = TRUE]
              ELSE LET ns == Append(st.nodes, [blackboard |-> next_blackboard,
                                               cost |-> next_cost,
                                               action_taken_idx |-> action_idx,
                                               parent |-> current])
                   IN expand_unchecked(acts, current, cl, action_idx + 1,
                             [nodes |-> ns,
                              open_set |-> queue_push(ns, st.open_set, Len(ns)),
                              calls |-> c,
                              thrown |-> FALSE])
         ELSE expand_unchecked(acts, current, cl, action_idx + 1, [st EXCEPT !.calls = c])
    ELSE expand_unchecked(acts, current, cl, action_idx + 1,
                [st EXCEPT !.calls.check = @ + 1])


RECURSIVE expand(_, _, _, _, _)
expand(acts, current, cl, action_idx, st) ==
  IF action_idx > Len(acts) \/ st.thrown THEN st
  ELSE
    LET action == acts[action_idx]
        bb == st.nodes[current].blackboard
    IN
    IF check_preconditions(action, bb)
    THEN LET next_blackboard == apply_effects(action, bb, TRUE)
             next_cost == st.nodes[current].cost + cost(action, bb)
             c == [st.calls EXCEPT !.check = @ + 1, !.dry = @ + 1, !.cost = @ + 1]
         IN
         IF ~closed_contains(cl, next_blackboard)
         THEN IF Len(st.nodes) >= MaxNodes
              THEN [st EXCEPT !.calls = c, !.thrown = TRUE]
              ELSE LET ns == Append(st.nodes, [blackboard |-> next_blackboard,
                                               cost |-> next_cost,
                                               action_taken_idx |-> action_idx,
                                               parent |-> current])
                   IN expand(acts, current, cl, action_idx + 1,
                             [nodes |-> ns,
                              open_set |-> queue_push(ns, st.open_set, Len(ns)),
                              calls |-> c,
                              thrown |-> FALSE])
         ELSE expand(acts, current, cl, action_idx + 1, [st EXCEPT !.calls = c])
    ELSE expand(acts, current, cl, action_idx + 1,
                [st EXCEPT !.calls.check = @ + 1])

NoCalls == [check |-> 0, cost |-> 0, dry |-> 0, commit |-> 0]

\* The state in which planner() enters its loop for the given arguments.
Start(acts, init, gl, maxit) ==
  /\ actions = acts
  /\ initial = init
  /\ goal = gl
  /\ max_iterations = maxit
  /\ nodes = <<[blackboard |-> init, cost |-> 0, action_taken_idx |-> NoAction,
                parent |-> NoParent]>>
  /\ open_set = <<1>>
  /\ closed_set = {}
  /\ iteration = 0
  /\ pc = "search"
  /\ m_plan = <<>>
  /\ m_actions = <<>>
  /\ blackboard = init
  /\ applied = <<>>
  /\ calls = NoCalls
  /\ pops = 0
  /\ found = NoParent
  /\ run_calls = 0
  /\ first_call = <<>>
  /\ NewMachines
  /\ NoTree
  /\ NoEvaluator

\* The condition of the for loop of planner().
loop_condition_late(open, maxit, it) == open # <<>> /\ (maxit = 0 \/ it <= maxit)

loop_condition_early(open, maxit, it) == open # <<>> /\ (maxit = 0 \/ it + 1 < maxit)

\* Takes a budget of 0 for a budget: no pass at all.
loop_condition_zero(open, maxit, it) == open # <<>> /\ it < maxit

loop_condition(open, maxit, it) == open # <<>> /\ (maxit = 0 \/ it < maxit)

\* One pass through the for loop of planner(), or its exit.
planner ==
  /\ pc = "search"
  /\ UNCHANGED <<actions, initial, goal, max_iterations, blackboard, applied, run_calls,
                 first_call, fsm_vars,
                 behtree_vars, utility_vars>>
  /\ IF loop_condition(open_set, max_iterations, iteration)
     THEN LET current_node == queue_top(open_set)
              rest == queue_pop(nodes, open_set)
              bb == nodes[current_node].blackboard
          IN
          /\ pops' = pops + 1
          /\ IF BlackboardEq(bb, goal)
             THEN /\ m_actions' = actions
                  /\ m_plan' = build_plan(nodes, current_node, <<>>)
                  /\ found' = current_node
                  /\ pc' = "returned"
                  /\ open_set' = rest
                  /\ UNCHANGED <<nodes, closed_set, iteration, calls>>
             ELSE /\ IF ~closed_contains(closed_set, bb)
                     THEN LET cl == closed_set \cup {bb}
                              st == expand(actions, current_node, cl, 1,
                                           [nodes |-> nodes, open_set |-> rest,
                                            calls |-> calls, thrown |-> FALSE])
                          IN /\ closed_set' = cl
                             /\ nodes' = st.nodes
                             /\ open_set' = st.open_set
                             /\ calls' = st.calls
                             /\ pc' = IF st.thrown THEN "bad_alloc" ELSE pc
                             /\ iteration' = IF st.thrown THEN iteration ELSE iteration + 1
                     ELSE /\ open_set' = rest
                          /\ iteration' = iteration + 1
                          /\ UNCHANGED <<nodes, closed_set, calls, pc>>
                  /\ UNCHANGED <<m_plan, m_actions, found>>
     ELSE /\ pc' = "returned"
          /\ m_plan' = <<>>
          /\ m_actions' = <<>>
          /\ UNCHANGED <<nodes, open_set, closed_set, iteration, calls, pops, found>>

\* plan::size() and plan::operator bool
size == Len(m_plan)
operator_bool == m_plan # <<>>

\* run_next without the test for an empty stack: on an exhausted plan it
\* applies the first action again.
run_next_unguarded ==
  /\ pc = "returned"
  /\ operator_bool \/ run_calls - Len(applied) < MaxExtraCalls
  /\ run_calls' = run_calls + 1
  /\ IF m_plan # <<>> \/ m_actions # <<>>
     THEN LET action_idx == IF m_plan # <<>> THEN Head(m_plan) ELSE 1 IN
          /\ m_plan' = IF m_plan # <<>> THEN Tail(m_plan) ELSE m_plan
          /\ blackboard' = apply_effects(m_actions[action_idx], blackboard, FALSE)
          /\ applied' = IF m_plan # <<>> THEN Append(applied, action_idx) ELSE applied
          /\ calls' = [calls EXCEPT !.commit = @ + 1]
     ELSE UNCHANGED <<m_plan, blackboard, applied, calls>>
  /\ UNCHANGED <<actions, initial, goal, max_iterations, nodes, open_set, closed_set,
                 iteration, pc, m_actions, pops, found, first_call, fsm_vars,
                 behtree_vars, utility_vars>>

\* run_next that takes the index at the bottom of the stack.
run_next_bottom ==
  /\ pc = "returned"
  /\ operator_bool \/ run_calls - Len(applied) < MaxExtraCalls
  /\ run_calls' = run_calls + 1
  /\ IF m_plan # <<>>
     THEN LET action_idx == m_plan[Len(m_plan)] IN
          /\ m_plan' = SubSeq(m_plan, 1, Len(m_plan) - 1)
          /\ blackboard' = apply_effects(m_actions[action_idx], blackboard, FALSE)
          /\ applied' = Append(applied, action_idx)
          /\ calls' = [calls EXCEPT !.commit = @ + 1]
     ELSE UNCHANGED <<m_plan, blackboard, applied, calls>>
  /\ UNCHANGED <<actions, initial, goal, max_iterations, nodes, open_set, closed_set,
                 iteration, pc, m_actions, pops, found, first_call, fsm_vars,
                 behtree_vars, utility_vars>>

\* plan::run_next(blackboard), called by the owner of the returned plan.
run_next ==
  /\ pc = "returned"
  /\ operator_bool \/ run_calls - Len(applied) < MaxExtraCalls
  /\ run_calls' = run_calls + 1
  /\ IF m_plan # <<>>
     THEN LET action_idx == Head(m_plan) IN
          /\ m_plan' = Tail(m_plan)
          /\ blackboard' = apply_effects(m_actions[action_idx], blackboard, FALSE)
          /\ applied' = Append(applied, action_idx)
          /\ calls' = [calls EXCEPT !.commit = @ + 1]
     ELSE UNCHANGED <<m_plan, blackboard, applied, calls>>
  /\ UNCHANGED <<actions, initial, goal, max_iterations, nodes, open_set, closed_set,
                 iteration, pc, m_actions, pops, found, first_call, fsm_vars,
                 behtree_vars, utility_vars>>

Next == planner \/ run_next

(***************************************************************************)
(* A caller that calls planner() a second time with the same actions,      *)
(* initial and goal blackboards and a budget of its choice, before it runs *)
(* the first plan.  planner() starts from a new open_set and closed_set    *)
(* and the root node.  It takes its action list by value, a vector of      *)
(* unique_ptr, so the caller hands it an equal list built again; calls     *)
(* goes on counting over both lists.                                       *)
(***************************************************************************)
SecondBudgets == {0, 1, MaxBudget, MaxBudget + 1}

Returned == [max_iterations |-> max_iterations, m_plan |-> m_plan, size |-> Len(m_plan),
             found |-> found # NoParent, pops |-> pops]

\* A planner whose closed_set outlives the call.
replan_stale_closed ==
  /\ pc = "returned" /\ run_calls = 0 /\ first_call = <<>>
  /\ first_call' = <<Returned>>
  /\ \E maxit \in SecondBudgets : max_iterations' = maxit
  /\ nodes' = <<[blackboard |-> initial, cost |-> 0, action_taken_idx |-> NoAction,
                 parent |-> NoParent]>>
  /\ open_set' = <<1>>
  /\ iteration' = 0
  /\ pc' = "search"
  /\ m_plan' = <<>>
  /\ m_actions' = <<>>
  /\ pops' = 0
  /\ found' = NoParent
  /\ UNCHANGED <<actions, initial, goal, blackboard, applied, calls, run_calls,
                 closed_set, fsm_vars,
                 behtree_vars, utility_vars>>

replan ==
  /\ pc = "returned" /\ run_calls = 0 /\ first_call = <<>>
  /\ first_call' = <<Returned>>
  /\ \E maxit \in SecondBudgets : max_iterations' = maxit
  /\ nodes' = <<[blackboard |-> initial, cost |-> 0, action_taken_idx |-> NoAction,
                 parent |-> NoParent]>>
  /\ open_set' = <<1>>
  /\ closed_set' = {}
  /\ iteration' = 0
  /\ pc' = "search"
  /\ m_plan' = <<>>
  /\ m_actions' = <<>>
  /\ pops' = 0
  /\ found' = NoParent
  /\ UNCHANGED <<actions, initial, goal, blackboard, applied, calls, run_calls, fsm_vars,
                 behtree_vars, utility_vars>>

ReplanNext == planner \/ replan

(***************************************************************************)
(* The two scenarios of tests/goap.spec.cpp, the second one also without   *)
(* its iteration budget, and a scenario with an action that costs nothing  *)
(* and is always applicable.                                               *)
(***************************************************************************)
TestInitial == Blackboard(FALSE, 0, 0, 0, 0)
TestGoal == Blackboard(TRUE, 0, 3, 2, 1)
TestUnreachable == Blackboard(FALSE, 0, 3, 2, 1)

forage == Action("w", "any", 0, NoBound, NoBound, 1, 0, 0, 0, FALSE, 0, 0)
ForageInitial == Blackboard(TRUE, 0, 0, 0, 0)
ForageGoal == Blackboard(TRUE, 0, 1, 0, 0)

InitScenarios ==
  \/ Start(TestActions, TestInitial, TestGoal, 0)
  \/ Start(TestActions, TestInitial, TestUnreachable, TestBudget)
  \/ Start(TestActions, TestInitial, TestUnreachable, 0)
  \/ Start(<<forage, gather_food>>, ForageInitial, ForageGoal, 0)

(***************************************************************************)
(* The arguments planner() is called with in the general specification:    *)
(* lists of up to MaxActions different actions drawn from a family that has *)
(* unequal, zero, negative and state-dependent costs, a cycle (inc / dec), *)
(* dead ends, and one action whose effect depends on dry_run; every        *)
(* initial and goal blackboard of the family's value range; every budget   *)
(* 0 (none), 1 and MaxBudget.  The family's preconditions keep wood within *)
(* MaxWood and food within 1.                                              *)
(***************************************************************************)
inc == Action("i", "any", 0, <<MaxWood - 1>>, NoBound, 1, 0, 0, 0, FALSE, 1, 0)
jump == Action("j", "any", 0, <<MaxWood - 2>>, NoBound, 2, 0, 0, 0, FALSE, 3, 0)
dec == Action("d", "any", 1, NoBound, NoBound, 0 - 1, 0, 0, 0, FALSE, 0, 0)
build == Action("b", "no", 2, NoBound, NoBound, 0 - 2, 0, 0, 0, TRUE, 0, 1)
feed == Action("f", "yes", 0, NoBound, <<0>>, 0, 1, 0, 0, FALSE, 1, 0)
rebate == Action("r", "any", 0, <<MaxWood - 1>>, NoBound, 1, 0, 0, 0, FALSE, 0 - 1, 0)
\* says wood + 1 to the planner and leaves wood alone when it is run
pretend == [Action("p", "any", 0, <<MaxWood - 1>>, NoBound, 1, 0, 0, 0, FALSE, 0, 0)
              EXCEPT !.commit_d_wood = 0]

ActionFamily == {inc, jump, dec, build, feed, rebate, pretend}

ActionLists ==
  {l \in UNION {[1..n -> ActionFamily] : n \in 0..MaxActions} :
     \A i, j \in 1..Len(l) : i # j => l[i] # l[j]}

InitialBlackboards == {Blackboard(st, w, 0, 0, 0) : st \in BOOLEAN, w \in {0, MaxWood}}

GoalBlackboards ==
  {Blackboard(st, w, f, 0, 0) : st \in BOOLEAN, w \in 0..MaxWood, f \in 0..1}

InitGeneral ==
  \E acts \in ActionLists, init \in InitialBlackboards, gl \in GoalBlackboards,
     maxit \in {0, 1, MaxBudget} :
    Start(acts, init, gl, maxit)

Init == InitGeneral \/ InitScenarios

Spec == Init /\ [][Next]_vars

\* planner() is a loop that runs on until it returns or throws.
FairSpec == Spec /\ WF_vars(planner)

\* The caller that plans twice, on the arguments of the general family.
ReplanSpec == InitGeneral /\ [][ReplanNext]_vars

(***************************************************************************)
(* The callers of the two machines: no planner() call is made, and every   *)
(* method is called in every order, with every state_ptr.                  *)
(***************************************************************************)
PlannerIdle ==
  /\ actions = <<>>
  /\ initial = TestInitial
  /\ goal = TestInitial
  /\ max_iterations = 0
  /\ nodes = <<>>
  /\ open_set = <<>>
  /\ closed_set = {}
  /\ iteration = 0
  /\ pc = "idle"
  /\ m_plan = <<>>
  /\ m_actions = <<>>
  /\ blackboard = TestInitial
  /\ applied = <<>>
  /\ calls = NoCalls
  /\ pops = 0
  /\ found = NoParent
  /\ run_calls = 0
  /\ first_call = <<>>

FsmInit == PlannerIdle /\ NewMachines /\ NoTree /\ NoEvaluator

SimpleNext == set_state \/ pause \/ resume \/ update
SimpleSpec == FsmInit /\ [][SimpleNext]_vars

StackNext == push_state \/ pop_state \/ stack_machine_update
StackSpec == FsmInit /\ [][StackNext]_vars

(***************************************************************************)
(* The caller of the stack machine that pushes state objects only, and     *)
(* none that is on the stack already, as the test does, which makes a new  *)
(* state_dummy for every push: every entry of the stack is an object of    *)
(* its own, and what an object sees is what its entry sees.                *)
(***************************************************************************)
push_new_state ==
  /\ push_state
  /\ op'[2] # nullptr
  /\ \A i \in DOMAIN m_state_stack : m_state_stack[i] # op'[2]

LifecycleNext == push_new_state \/ pop_state \/ stack_machine_update
LifecycleSpec == FsmInit /\ [][LifecycleNext]_vars

(***************************************************************************)
(* The caller of the behaviour tree: it builds one tree and evaluates it   *)
(* MaxTicks times.  The trees are the flat ones, a seq, a sel or a neg     *)
(* over leaves, and the nested ones, a seq, a sel or a neg over at most    *)
(* two inner nodes, an inner node being a leaf or a small flat tree; and    *)
(* the trees of De Morgan's law, over the same lists of leaves.            *)
(***************************************************************************)
Lists(S, n) == UNION {[1..k -> S] : k \in 0..n}

Tasks == {task(s) : s \in execution_state}
Leaves == Tasks \cup {check(fn) : fn \in {"true", "false", "untouched"}}

Composites(children, negated) ==
  {seq(l) : l \in children} \cup {sel(l) : l \in children}
    \cup {neg(c) : c \in negated} \cup {moved_from_neg}

FlatTrees == Composites(Lists(Leaves, MaxChildren), Leaves)
InnerNodes == Leaves \cup Composites(Lists(Tasks, 2), Tasks)
NestedTrees == Composites(Lists(InnerNodes, 2), InnerNodes)
\* A neg of a seq of leaves, and the sel of the negs of the same leaves.
Negated(l) == [i \in DOMAIN l |-> neg(l[i])]
DualTrees ==
  {neg(seq(l)) : l \in Lists(Leaves, MaxChildren)}
    \cup {sel(Negated(l)) : l \in Lists(Leaves, MaxChildren)}
Trees == Leaves \cup FlatTrees \cup NestedTrees \cup DualTrees

BehtreeInit ==
  /\ PlannerIdle /\ NewMachines /\ NoEvaluator
  /\ root \in Trees
  /\ bt_blackboard = BtBlackboard
  /\ bt_state = NoState
  /\ trace = <<>>
  /\ ticks = 0

BehtreeNext == tick
BehtreeSpec == BehtreeInit /\ [][BehtreeNext]_vars

(***************************************************************************)
(* The caller of the utility evaluator: it builds an evaluator over any    *)
(* list of at most MaxChoices actions and runs it MaxRuns times.            *)
(* The test leaves the blackboard's field uninitialized.                   *)
(***************************************************************************)
UtilityActions == {UtilityAction(s, e) : s \in -MaxScore..MaxScore, e \in effect}

UtilityInit ==
  /\ PlannerIdle /\ NewMachines /\ NoTree
  /\ evaluator \in Lists(UtilityActions, MaxChoices)
  /\ utility_blackboard \in [e : effect]
  /\ utility_calls = <<>>
  /\ runs = 0

UtilityNext == run
UtilitySpec == UtilityInit /\ [][UtilityNext]_vars

(***************************************************************************)
(* What the claims are stated with: the plan as planner() returned it, the *)
(* states reachable from the initial blackboard, and the cheapest cost of  *)
(* reaching each of them, all computed without the search.                 *)
(***************************************************************************)
\* The plan as returned: what run_next has applied, then what is left.
ReturnedPlan == applied \o m_plan

\* A blackboard up to operator==.
Key(bb) == [bb EXCEPT !.plan_order = <<>>]

\* The value range of the general specification's action family.
Within(bb) ==
  /\ bb.wood \in 0..MaxWood
  /\ bb.food \in 0..1
  /\ bb.gold = 0
  /\ bb.stone = 0

Applicable(acts, bb) == {i \in 1..Len(acts) : check_preconditions(acts[i], bb)}

Successors(acts, bb) ==
  {Key(apply_effects(acts[i], bb, TRUE)) : i \in Applicable(acts, bb)}

\* The states reachable from those of S through states of the value range;
\* a state outside the range is kept and not followed further.
RECURSIVE Closure(_, _)
Closure(acts, S) ==
  LET T == S \cup UNION {Successors(acts, bb) : bb \in {x \in S : Within(x)}}
  IN IF T = S THEN S ELSE Closure(acts, T)

ReachableSet == Closure(actions, {Key(initial)})

\* Every reachable state is in the value range: ReachableSet is then exactly
\* the (finite) set of states reachable from initial.
ReachFinite == \A bb \in ReachableSet : Within(bb)

GoalReachable == Key(goal) \in ReachableSet
GoalUnreachable == ReachFinite /\ ~GoalReachable

\* apply_effects gives the same blackboard for both values of dry_run.
DryRunAgnostic(acts) ==
  \A i \in 1..Len(acts) : \A bb \in GoalBlackboards :
    apply_effects(acts[i], bb, TRUE) = apply_effects(acts[i], bb, FALSE)

\* The actions of the path from the root to node n, the root's first.
RECURSIVE PathFromRoot(_, _)
PathFromRoot(ns, n) ==
  IF ns[n].parent = NoParent THEN <<>>
  ELSE Append(PathFromRoot(ns, ns[n].parent), ns[n].action_taken_idx)

\* C1: a non-empty plan, run to its end with run_next on a copy of initial,
\* leaves that copy equal (operator==) to the goal, for actions whose
\* apply_effects does not depend on dry_run.
C1_PlanValidity ==
  (pc = "returned" /\ applied # <<>> /\ m_plan = <<>> /\ DryRunAgnostic(m_actions))
    => BlackboardEq(blackboard, goal)

C1_Witness ==
  /\ pc = "returned" /\ m_plan = <<>> /\ Len(applied) >= 3
  /\ DryRunAgnostic(m_actions)
  /\ ~BlackboardEq(initial, goal)
  /\ BlackboardEq(blackboard, goal)
  /\ \E i, j \in 1..Len(applied) : applied[i] # applied[j]

\* C2: with max_iterations = 0, a goal that differs from initial and can be
\* reached through applicable actions is found: the search does not end
\* otherwise than by returning a non-empty plan (a search that never ends
\* runs out of memory).
C2_Completeness ==
  (max_iterations = 0 /\ pc # "search" /\ ~BlackboardEq(initial, goal) /\ GoalReachable)
    => (pc = "returned" /\ found # NoParent /\ ReturnedPlan # <<>>)

\* The cheapest cost of reaching each reachable state from initial, as a set
\* of <<state, cost>> pairs (Bellman-Ford, n rounds of relaxation).
RECURSIVE Relax(_, _, _)
Relax(acts, D, n) ==
  IF n = 0 THEN D
  ELSE LET step == UNION {{<<Key(apply_effects(acts[i], p[1], TRUE)),
                              p[2] + cost(acts[i], p[1])>> :
                               i \in Applicable(acts, p[1])} :
                            p \in {q \in D : Within(q[1])}}
           cand == D \cup step
       IN Relax(acts, {p \in cand : \A q \in cand : q[1] = p[1] => p[2] <= q[2]}, n - 1)

\* The cheapest cost of reaching the goal: a set of one number, or empty.
MinCost ==
  LET D == Relax(actions, {<<Key(initial), 0>>}, Cardinality(ReachableSet))
  IN {p[2] : p \in {q \in D : q[1] = Key(goal)}}

NonNegativeCosts(acts) ==
  \A i \in 1..Len(acts) : \A bb \in GoalBlackboards : cost(acts[i], bb) >= 0

\* The sum of cost(state) of each action of the plan, each in the state it is
\* applied from (as the search sees the states: dry_run = true).
RECURSIVE PlanCost(_, _, _)
PlanCost(acts, bb, p) ==
  IF p = <<>> THEN 0
  ELSE cost(acts[Head(p)], bb)
         + PlanCost(acts, apply_effects(acts[Head(p)], bb, TRUE), Tail(p))

TestGoalUnreachable == actions = TestActions /\ initial = TestInitial /\ goal = TestUnreachable

C4_Original ==
  (max_iterations = 0 /\ pc # "search" /\ (GoalUnreachable \/ TestGoalUnreachable))
    => (pc = "returned" /\ size = 0 /\ open_set = <<>>)

\* C4 as amended: when only finitely many states are reachable from initial
\* and the goal is not among them, planner with max_iterations = 0 pops at
\* most 1 + (reachable states * actions) nodes and ends by returning an empty
\* plan, the frontier empty (it does not run out of memory).
C4_FailureIsSafe ==
  (max_iterations = 0 /\ GoalUnreachable) =>
    /\ pops <= 1 + Cardinality(ReachableSet) * Len(actions)
    /\ pc # "bad_alloc"
    /\ pc = "returned" =>
         (found = NoParent /\ size = 0 /\ applied = <<>> /\ open_set = <<>>)

C4_Witness ==
  /\ max_iterations = 0 /\ GoalUnreachable
  /\ pc = "returned" /\ size = 0 /\ open_set = <<>>
  /\ Cardinality(closed_set) >= 4
  /\ pops > Cardinality(closed_set)

\* C5: with a budget N > 0 at most N nodes are popped, every pop counting
\* (also the pop of a state that is already closed); a search that popped
\* no goal returns an empty plan; the test's unreachable goal with the
\* budget of 1000 ends after 1000 pops with an empty plan.
C5_IterationBudget ==
  /\ max_iterations > 0 =>
       /\ pops <= max_iterations
       /\ pc # "bad_alloc"
       /\ pc = "search" => pops = iteration
  /\ (pc = "returned" /\ found = NoParent) => (ReturnedPlan = <<>> /\ m_actions = <<>>)
  /\ (actions = TestActions /\ goal = TestUnreachable /\ max_iterations = TestBudget
        /\ pc = "returned")
       => (found = NoParent /\ size = 0 /\ pops = TestBudget)

C5_Witness ==
  /\ actions = TestActions /\ goal = TestUnreachable /\ max_iterations = TestBudget
  /\ pc = "returned" /\ size = 0 /\ pops = TestBudget
  /\ open_set # <<>>
  /\ Cardinality(closed_set) < pops

\* C6: when initial equals goal, planner returns in its first iteration an
\* empty plan, having called no action's check_preconditions, cost or
\* apply_effects, whatever the actions and the budget.
C6_TrivialGoal ==
  BlackboardEq(initial, goal) =>
    /\ pc # "bad_alloc"
    /\ calls.check = 0 /\ calls.cost = 0 /\ calls.dry = 0 /\ calls.commit = 0
    /\ pc = "search" => (pops = 0 /\ iteration = 0)
    /\ pc = "returned" =>
         (pops = 1 /\ iteration = 0 /\ found = 1 /\ size = 0 /\ applied = <<>>)

C6_Witness ==
  /\ BlackboardEq(initial, goal) /\ pc = "returned" /\ found = 1 /\ size = 0
  /\ Len(actions) = MaxActions /\ max_iterations = 1
  /\ Applicable(actions, initial) # {}

\* C7 as claimed: whenever the search pops a node equal to the goal, the
\* returned plan is non-empty.
C7_Original ==
  (pc = "returned" /\ found # NoParent) => ReturnedPlan # <<>>

\* C7 as amended: the returned plan is empty exactly when no goal node was
\* popped (frontier or budget exhausted) or the goal node popped is the root,
\* which happens exactly when initial equals goal.
C7_EmptyPlan ==
  pc = "returned" =>
    /\ (ReturnedPlan = <<>>) <=> (found = NoParent \/ found = 1)
    /\ (found = 1) <=> BlackboardEq(initial, goal)
    /\ found = NoParent =>
         (open_set = <<>> \/ (max_iterations > 0 /\ iteration = max_iterations))

C7_Witness ==
  /\ pc = "returned" /\ found > 1 /\ Len(ReturnedPlan) = 1
  /\ max_iterations = MaxBudget /\ iteration + 1 = max_iterations

\* C8: in the test's scenario planner (max_iterations = 0) returns a plan of
\* exactly 17 steps, 10 chop_wood then build_storage first, whose execution
\* ends in a blackboard equal to the goal with plan_order starting
\* WWWWWWWWWWB.
PlanSteps == 17

Prefix == [i \in 1..(StorageWood + 1) |-> IF i <= StorageWood THEN 1 ELSE 2]
PrefixOrder == [i \in 1..(StorageWood + 1) |-> IF i <= StorageWood THEN "W" ELSE "B"]

C8_Scenario ==
  (actions = TestActions /\ initial = TestInitial /\ goal = TestGoal
     /\ max_iterations = 0) =>
    /\ pc # "bad_alloc"
    /\ pc = "returned" =>
         /\ Len(ReturnedPlan) = PlanSteps
         /\ SubSeq(ReturnedPlan, 1, StorageWood + 1) = Prefix
         /\ m_plan = <<>> =>
              /\ BlackboardEq(blackboard, goal)
              /\ SubSeq(blackboard.plan_order, 1, StorageWood + 1) = PrefixOrder

C8_Witness ==
  /\ actions = TestActions /\ goal = TestGoal /\ max_iterations = 0
  /\ pc = "returned" /\ m_plan = <<>> /\ Len(applied) = PlanSteps
  /\ BlackboardEq(blackboard, goal)

\* C9: a run_next call on a plan of size n > 0 applies exactly the action on
\* top with dry_run = false and makes the size n - 1; the plan as returned is
\* the path from the root to the goal node, root's action first, so the loop
\* "while (p) p.run_next(bb)" makes exactly that many calls in that order;
\* operator bool is true exactly when size() > 0.
C9_Consumption ==
  [][/\ (run_calls' # run_calls /\ m_plan # <<>>) =>
          /\ Len(m_plan') = Len(m_plan) - 1
          /\ m_plan' = Tail(m_plan)
          /\ applied' = Append(applied, Head(m_plan))
          /\ blackboard' = apply_effects(m_actions[Head(m_plan)], blackboard, FALSE)
          /\ calls' = [calls EXCEPT !.commit = @ + 1]
     /\ (operator_bool <=> size > 0)'
     /\ (pc' = "returned" /\ found' # NoParent) =>
          /\ (applied \o m_plan)' = PathFromRoot(nodes', found')
          /\ m_actions' = actions'
          /\ (run_calls' = Len(applied') /\ m_plan' = <<>>) =>
               run_calls' = Len(PathFromRoot(nodes', found'))
    ]_vars

C9_Witness ==
  /\ pc = "returned" /\ m_plan = <<>> /\ Len(applied) >= 3
  /\ run_calls = Len(applied)
  /\ applied = PathFromRoot(nodes, found)
  /\ applied[1] # applied[Len(applied)]

\* C10: run_next on an exhausted plan changes nothing: no apply_effects call,
\* the caller's blackboard and the (empty) plan stay as they are.
C10_ExhaustedNoOp ==
  [][(run_calls' # run_calls /\ m_plan = <<>>) =>
       /\ blackboard' = blackboard
       /\ m_plan' = <<>>
       /\ calls' = calls
       /\ applied' = applied
       /\ m_actions' = m_actions
    ]_vars

\* after a consumed plan, and after a plan that was returned empty
C10_Witness ==
  /\ pc = "returned" /\ m_plan = <<>> /\ applied # <<>>
  /\ run_calls = Len(applied) + MaxExtraCalls
  /\ calls.commit = Len(applied)

\* The nodes of the path from node n up to the root, both included.
RECURSIVE PathNodes(_, _)
PathNodes(ns, n) ==
  IF ns[n].parent = NoParent THEN {n} ELSE {n} \cup PathNodes(ns, ns[n].parent)

\* The actions applicable in the state node n was made from that lead to the
\* state of node n (as the search sees it) and cost more there than the
\* action node n was made with.
DearerSimilar(n) ==
  LET s == nodes[nodes[n].parent].blackboard IN
  {j \in Applicable(actions, s) :
     /\ BlackboardEq(apply_effects(actions[j], s, TRUE), nodes[n].blackboard)
     /\ cost(actions[j], s) > cost(actions[nodes[n].action_taken_idx], s)}

CheaperSimilar(n) ==
  LET s == nodes[nodes[n].parent].blackboard IN
  {j \in Applicable(actions, s) :
     /\ BlackboardEq(apply_effects(actions[j], s, TRUE), nodes[n].blackboard)
     /\ cost(actions[j], s) < cost(actions[nodes[n].action_taken_idx], s)}

\* C11: no step of a returned plan is taken with an action when another
\* action, applicable in the same state and leading to the same successor,
\* costs less there; whatever the sign of the costs.
C11_CheapestSimilar ==
  (pc = "returned" /\ run_calls = 0 /\ found # NoParent) =>
    /\ ReturnedPlan = PathFromRoot(nodes, found)
    /\ \A n \in PathNodes(nodes, found) :
         nodes[n].parent # NoParent => CheaperSimilar(n) = {}

\* a plan of two steps, each taken with the cheaper of two similar actions,
\* the dearer one being the first of the action list
C11_Witness ==
  /\ pc = "returned" /\ found # NoParent /\ Len(ReturnedPlan) = 2
  /\ \A n \in PathNodes(nodes, found) :
       nodes[n].parent # NoParent =>
         \E j \in DearerSimilar(n) : j < nodes[n].action_taken_idx

\* The earlier call and this one are of the same caller, and this one has
\* returned.
BothReturned == first_call # <<>> /\ pc = "returned"
First == first_call[1]

\* C12 as claimed: if the call with max_iterations = N returned a non-empty
\* plan, the call with M >= N or M = 0 returns the same plan.
C12_Original ==
  (BothReturned /\ First.m_plan # <<>>
     /\ (max_iterations >= First.max_iterations \/ max_iterations = 0))
    => m_plan = First.m_plan

\* C12 as amended: if the call with a budget N > 0 returned a non-empty plan,
\* the call with M >= N or M = 0 returns the same plan after the same number
\* of iterations, and so does the call with M = 0 after a call with N = 0; N = 0 is no budget, and a call with a
\* budget M > 0 after it may return an empty plan.
C12_BudgetMonotonicity ==
  (first_call # <<>> /\ First.m_plan # <<>>
     /\ \/ First.max_iterations > 0
           /\ (max_iterations >= First.max_iterations \/ max_iterations = 0)
        \/ First.max_iterations = 0 /\ max_iterations = 0)
    => /\ pc # "bad_alloc"
       /\ pops <= First.pops
       /\ pc = "returned" =>
            (m_plan = First.m_plan /\ size = First.size /\ pops = First.pops)

C12_Witness ==
  /\ BothReturned
  /\ First.max_iterations = MaxBudget /\ max_iterations = 0
  /\ Len(First.m_plan) = 2 /\ m_plan = First.m_plan
  /\ pops = MaxBudget

C14_EmptyActions ==
  actions = <<>> =>
    /\ pc # "bad_alloc"
    /\ calls = NoCalls
    /\ Len(nodes) = 1
    /\ pc = "search" => (pops = iteration /\ (pops = 0 \/ (pops = 1 /\ open_set = <<>>)))
    /\ pc = "returned" =>
         /\ pops = 1
         /\ size = 0 /\ ~operator_bool
         /\ (found # NoParent) <=> BlackboardEq(initial, goal)
         /\ found = NoParent => (open_set = <<>> /\ iteration = 1)

C14_Witness ==
  /\ actions = <<>> /\ pc = "returned" /\ size = 0 /\ pops = 1
  /\ ~BlackboardEq(initial, goal) /\ max_iterations = 0

(***************************************************************************)
(* The machines' claims.  A step is the call of the method that op' names; *)
(* hooks' lists the hooks that call made.                                  *)
(***************************************************************************)
OpName(o) == IF o = <<>> THEN "" ELSE o[1]

\* The hook the method calls on state, if there is one: a list of 0 or 1 calls.
Hooked(hook, state) == IF state # nullptr THEN <<<<hook, state>>>> ELSE <<>>

ExitEnter(h) == h[1] \in {"exit", "enter"}

\* C15: set_state(new) calls exit on the current state, if any, and after it
\* enter on new, if not null, and new is the current state afterwards;
\* set_state(nullptr) calls exit on the current state and nothing else, and
\* leaves the machine without a state.
C15_SetState ==
  [][\A new \in StatePtrs :
       op' = <<"set_state", new>> =>
         /\ m_current_state' = new
         /\ SelectSeq(hooks', ExitEnter)
              = Hooked("exit", m_current_state) \o Hooked("enter", new)
         /\ new = nullptr => hooks' = Hooked("exit", m_current_state)
         /\ m_current_state # nullptr => fsm_blackboard'.exit = m_current_state
         /\ new # nullptr => fsm_blackboard'.enter = new
    ]_vars

C15_Witness ==
  /\ op = <<"set_state", 2>> /\ m_current_state = 2 /\ ~m_paused
  /\ hooks = <<<<"exit", 1>>, <<"enter", 2>>>>
  /\ fsm_blackboard.exit = 1 /\ fsm_blackboard.enter = 2

\* C16: set_state(new), new not null, on a paused machine calls enter and then
\* pause on new, on a machine that is not paused enter only; pause() pauses a
\* machine without a state too, and set_state leaves m_paused as it is.
C16_SetStatePaused ==
  [][/\ \A new \in StateVals :
          op' = <<"set_state", new>> =>
            /\ hooks' = Hooked("exit", m_current_state) \o <<<<"enter", new>>>>
                          \o (IF m_paused THEN <<<<"pause", new>>>> ELSE <<>>)
            /\ m_paused => fsm_blackboard'.pause = new
            /\ ~m_paused => fsm_blackboard'.pause = fsm_blackboard.pause
            /\ m_paused' = m_paused
     /\ (op' = <<"pause">> /\ m_current_state = nullptr) =>
          (m_paused' /\ hooks' = <<>> /\ m_current_state' = nullptr)
    ]_vars

\* the sequence of the test: pause() on a machine without a state, then
\* set_state(3); no other hook has ever run
C16_Witness ==
  /\ op = <<"set_state", 3>> /\ m_current_state = 3 /\ m_paused
  /\ hooks = <<<<"enter", 3>>, <<"pause", 3>>>>
  /\ fsm_blackboard = [FsmBlackboard EXCEPT !.enter = 3, !.pause = 3]

\* C17: pause() and resume() call the current state's pause and resume hook,
\* if a state is set; a new machine is not paused, pause() pauses it,
\* resume() ends that and no other method changes it, so update() calls the
\* current state's update hook exactly when the last of pause() and resume()
\* was not pause() and a state is set; on a paused machine update() calls no
\* hook and leaves the blackboard as it is.
C17_PauseResumeUpdate ==
  /\ ~m_paused
  /\ [][/\ op' = <<"pause">> =>
             (m_paused' /\ hooks' = Hooked("pause", m_current_state))
        /\ op' = <<"resume">> =>
             (~m_paused' /\ hooks' = Hooked("resume", m_current_state))
        /\ OpName(op') \notin {"pause", "resume"} => m_paused' = m_paused
        /\ OpName(op') # "set_state" => m_current_state' = m_current_state
        /\ op' = <<"update">> =>
             /\ hooks' = IF m_paused THEN <<>> ELSE Hooked("update", m_current_state)
             /\ m_paused => fsm_blackboard' = fsm_blackboard
             /\ hooks' # <<>> => fsm_blackboard'.update = m_current_state
       ]_vars

\* update() on a machine with a state that was paused, resumed and paused again
C17_Witness ==
  /\ op = <<"update">> /\ hooks = <<>> /\ m_paused /\ m_current_state = 1
  /\ fsm_blackboard.pause = 1 /\ fsm_blackboard.resume = 1
  /\ fsm_blackboard.update = 0

\* C18 as claimed: after push_state(s) the last hook called is enter on s, and
\* s is the top of the stack.
C18_Original ==
  OpName(op) = "push_state" =>
    /\ hooks # <<>> /\ hooks[Len(hooks)] = <<"enter", op[2]>>
    /\ m_state_stack # <<>> /\ back(m_state_stack) = op[2]

\* C18 as amended: push_state(s) calls pause on the top state, if any; if s is
\* not null it then calls enter on s and s is the top of the stack, the
\* states that were there below it in their order; if s is null it calls
\* nothing else and leaves the stack as it is.
C18_PushState ==
  [][\A s \in StatePtrs :
       op' = <<"push_state", s>> =>
         LET paused == IF m_state_stack # <<>>
                       THEN Hooked("pause", back(m_state_stack)) ELSE <<>>
         IN /\ hooks' = paused \o Hooked("enter", s)
            /\ s # nullptr =>
                 /\ m_state_stack' = Append(m_state_stack, s)
                 /\ back(m_state_stack') = s
                 /\ fsm_blackboard'.enter = s
            /\ s = nullptr => m_state_stack' = m_state_stack
            /\ m_state_stack # <<>> => fsm_blackboard'.pause = back(m_state_stack)
    ]_vars

C18_Witness ==
  /\ op = <<"push_state", 3>> /\ m_state_stack = <<1, 2, 3>>
  /\ hooks = <<<<"pause", 2>>, <<"enter", 3>>>>
  /\ fsm_blackboard.pause = 2 /\ fsm_blackboard.enter = 3

\* C19: pop_state() calls exit on the top state, if any, removes it, and then
\* calls resume on the state that is the top now, if any; the stack holds the
\* states in the order they were entered, so they are exited last entered
\* first; on an empty stack pop_state() calls nothing and the stack stays
\* empty.
C19_PopState ==
  [][/\ op' = <<"pop_state">> =>
          IF m_state_stack # <<>>
          THEN LET rest == pop_back(m_state_stack) IN
               /\ m_state_stack' = rest
               /\ hooks' = <<<<"exit", back(m_state_stack)>>>>
                             \o (IF rest # <<>> THEN Hooked("resume", back(rest)) ELSE <<>>)
               /\ fsm_blackboard'.exit = back(m_state_stack)
               /\ rest # <<>> => fsm_blackboard'.resume = back(rest)
          ELSE /\ m_state_stack' = <<>>
               /\ hooks' = <<>>
               /\ fsm_blackboard' = fsm_blackboard
     /\ \A s \in StateVals :
          (op' = <<"push_state", s>> /\ <<"enter", s>> = hooks'[Len(hooks')])
            => m_state_stack' = Append(m_state_stack, s)
     /\ OpName(op') \notin {"push_state", "pop_state"} => m_state_stack' = m_state_stack
    ]_vars

\* 1, 2, 3 were entered in this order; 3 has been exited, and now 2 is
C19_Witness ==
  /\ op = <<"pop_state">> /\ m_state_stack = <<1>>
  /\ hooks = <<<<"exit", 2>>, <<"resume", 1>>>>
  /\ fsm_blackboard.exit = 2 /\ fsm_blackboard.resume = 1 /\ fsm_blackboard.enter = 3

\* C20: update() calls the update hook of the top state and of no other state,
\* calls nothing on an empty stack, and leaves the stack as it is.
C20_StackUpdate ==
  [][op' = <<"update">> =>
       /\ m_state_stack' = m_state_stack
       /\ IF m_state_stack # <<>>
          THEN /\ hooks' = <<<<"update", back(m_state_stack)>>>>
               /\ fsm_blackboard' = [fsm_blackboard EXCEPT !.update = back(m_state_stack)]
          ELSE /\ hooks' = <<>>
               /\ fsm_blackboard' = fsm_blackboard
    ]_vars

C20_Witness ==
  /\ op = <<"update">> /\ m_state_stack = <<1, 3, 2>>
  /\ hooks = <<<<"update", 2>>>>
  /\ fsm_blackboard.update = 2

(***************************************************************************)
(* Behaviour tree: what the trace of the last evaluate tells of a node.    *)
(***************************************************************************)
RECURSIVE NodeAt(_, _)
NodeAt(n, path) ==
  IF path = <<>> THEN n ELSE NodeAt(n.m_children[Head(path)], Tail(path))

\* The paths of the nodes the last evaluate of the root evaluated.
EvaluatedPaths == {trace[k][1] : k \in DOMAIN trace}
EvaluatedOf(kind) == {p \in EvaluatedPaths : NodeAt(root, p).kind = kind}

\* The state the node at path p returned.
ResultAt(p) == trace[CHOOSE k \in DOMAIN trace : trace[k][1] = p][2]

\* The returns of the children of the node at path p, in their order.
ChildReturns(p) ==
  SelectSeq(trace, LAMBDA e : Len(e[1]) = Len(p) + 1 /\ SubSeq(e[1], 1, Len(p)) = p)

\* The children of the node at p were evaluated in list order, each once, up
\* to and including the first whose state is not pass, and no child after it.
StopsAtFirstNot(p, pass) ==
  LET c == ChildReturns(p)
      children == NodeAt(root, p).m_children
  IN /\ Len(c) <= Len(children)
     /\ \A k \in 1..Len(c) : c[k][1] = Append(p, k)
     /\ \A k \in 1..(Len(c) - 1) : c[k][2] = pass
     /\ Len(c) < Len(children) => c[Len(c)][2] # pass
     /\ Len(c) < Len(children) => Len(c) > 0

\* C21: seq::evaluate evaluates its children in list order and stops at the
\* first child whose state is not success: it returns that state, failure or
\* running, and no later child is evaluated; when every child returned
\* success, and so when there is no child, it returns success.
C21_Seq ==
  \A p \in EvaluatedOf("seq") :
    LET c == ChildReturns(p)
    IN /\ StopsAtFirstNot(p, "success")
       /\ ResultAt(p) = IF c # <<>> /\ c[Len(c)][2] # "success"
                        THEN c[Len(c)][2] ELSE "success"
       /\ ResultAt(p) = "success" => Len(c) = Len(NodeAt(root, p).m_children)

\* A seq of three children stopped at its second child, which is running.
C21_Witness ==
  /\ root # <<>> /\ root.kind = "seq" /\ Len(root.m_children) = 3
  /\ Len(ChildReturns(<<>>)) = 2
  /\ bt_state = "running"

\* C22: sel::evaluate evaluates its children in list order and stops at the
\* first child whose state is not failure: it returns that state, success or
\* running, and no later child is evaluated; when every child returned
\* failure, and so when there is no child, it returns failure.
C22_Sel ==
  \A p \in EvaluatedOf("sel") :
    LET c == ChildReturns(p)
    IN /\ StopsAtFirstNot(p, "failure")
       /\ ResultAt(p) = IF c # <<>> /\ c[Len(c)][2] # "failure"
                        THEN c[Len(c)][2] ELSE "failure"
       /\ ResultAt(p) = "failure" => Len(c) = Len(NodeAt(root, p).m_children)

\* A sel of three children stopped at its second child, which is running.
C22_Witness ==
  /\ root # <<>> /\ root.kind = "sel" /\ Len(root.m_children) = 3
  /\ Len(ChildReturns(<<>>)) = 2
  /\ bt_state = "running"

\* C23: neg::evaluate of a neg that has its child evaluates the child exactly
\* once, and returns failure for the child's success, success for its
\* failure and running for its running.
C23_Neg ==
  \A p \in EvaluatedOf("neg") :
    Len(NodeAt(root, p).m_children) = 1 =>
      LET c == ChildReturns(p)
      IN /\ Len(c) = 1
         /\ c[1][1] = Append(p, 1)
         /\ ResultAt(p) = CASE c[1][2] = "success" -> "failure"
                            [] c[1][2] = "failure" -> "success"
                            [] c[1][2] = "running" -> "running"

\* A neg of a running task returned running, the task having run once.
C23_Witness ==
  /\ root = neg(task("running"))
  /\ bt_state = "running"
  /\ ticks = 1
  /\ bt_blackboard.node_count = 1

(***************************************************************************)
(* Utility evaluator: what the calls of the last run tell.                 *)
(***************************************************************************)
\* The indices of the actions the last run applied, in call order.
Applied ==
  LET a == SelectSeq(utility_calls, LAMBDA c : c[1] = "apply")
  IN [k \in DOMAIN a |-> a[k][2]]

\* The largest score of the evaluator's actions on the blackboard bb.
MaxOfScores(bb) ==
  CHOOSE m \in {score(evaluator[i], bb) : i \in DOMAIN evaluator} :
    \A i \in DOMAIN evaluator : score(evaluator[i], bb) <= m

\* C24: whatever the scores, positive, zero or negative, a run of a non-empty
\* evaluator applies an action whose score is the largest of all its actions.
\* (The scores of the model do not read the blackboard: they are the same
\* before and after the run.)
C24_BestScore ==
  utility_calls # <<>> =>
    /\ Len(Applied) = 1
    /\ score(evaluator[Applied[1]], utility_blackboard) = MaxOfScores(utility_blackboard)

(***************************************************************************)
(* The search, step by step: the frontier, the popped node and the nodes   *)
(* one iteration pushes.                                                   *)
(***************************************************************************)
Frontier == {open_set[q] : q \in DOMAIN open_set}
Popped == DOMAIN nodes \ Frontier
\* The nodes some iteration pushed a successor of.
Parents == {nodes[k].parent : k \in DOMAIN nodes} \ {NoParent}
\* The nodes the step pushes.
Pushed == (Len(nodes) + 1)..Len(nodes')
Closed(bb) == \E c \in closed_set : BlackboardEq(c, bb)
\* The step is an iteration of planner's loop: it pops a node.
Pops == pc = "search" /\ pops' = pops + 1

\* C25: a state is expanded at most once in a planner call.  An iteration
\* expands the node it pops (enumerates the action list, pushes successors,
\* all of them successors of that node) only if the node's state is neither
\* the goal nor closed already, and it closes that state as it does; a
\* popped node whose state is closed pushes nothing and calls no action.  No
\* other state is ever closed, none of the states pushed in particular, so
\* that a state may be in the frontier more than once; and no state leaves
\* the closed set.
C25_ClosedSet ==
  [][
      /\ Pops =>
          LET current == queue_top(open_set)
              bb == nodes[current].blackboard
          IN IF Closed(bb) \/ BlackboardEq(bb, goal)
             THEN closed_set' = closed_set /\ nodes' = nodes /\ calls' = calls
             ELSE /\ closed_set' = closed_set \cup {bb}
                  /\ \A k \in Pushed : nodes'[k].parent = current
                  /\ SubSeq(nodes', 1, Len(nodes)) = nodes
                  /\ pc' # "bad_alloc" => calls'.check = calls.check + Len(actions)
      /\ ~Pops => closed_set' = closed_set /\ nodes' = nodes
    ]_vars

\* A state was in the frontier twice and both of its nodes were popped while
\* the search went on: the second was popped closed; a third is still there.
C25_Witness ==
  /\ pc = "search"
  /\ \E i, j \in Popped : \E k \in Frontier :
       /\ i # j
       /\ BlackboardEq(nodes[i].blackboard, nodes[j].blackboard)
       /\ BlackboardEq(nodes[i].blackboard, nodes[k].blackboard)
       /\ i \in Parents

\* The step is a call of run_next on the returned plan.
RunsNext == pc = "returned" /\ run_calls' = run_calls + 1

\* C26: planner calls apply_effects with dry_run = true only, once for each
\* applicable action of the node it expands, on a copy of that node's state:
\* the state of a pushed node is apply_effects(parent's state, true), and no
\* node there was, the parent and the frontier's nodes among them, nor the
\* caller's blackboard is changed.  run_next calls apply_effects with
\* dry_run = false only, on the caller's blackboard, and touches no node.
C26_StagedEffects ==
  [][
      /\ pc = "search" =>
           /\ calls'.commit = calls.commit
           /\ blackboard' = blackboard /\ initial' = initial /\ goal' = goal
           /\ SubSeq(nodes', 1, Len(nodes)) = nodes
           /\ \A k \in Pushed :
                nodes'[k].blackboard =
                  apply_effects(actions[nodes'[k].action_taken_idx],
                                nodes[nodes'[k].parent].blackboard, TRUE)
           /\ pc' # "bad_alloc" =>
                calls'.dry - calls.dry =
                  IF nodes' = nodes /\ closed_set' = closed_set THEN 0
                  ELSE Cardinality(Applicable(actions, nodes[queue_top(open_set)].blackboard))
      /\ RunsNext =>
           /\ calls'.dry = calls.dry
           /\ nodes' = nodes
           /\ IF m_plan # <<>>
              THEN /\ calls'.commit = calls.commit + 1
                   /\ blackboard' = apply_effects(m_actions[Head(m_plan)], blackboard, FALSE)
              ELSE calls' = calls /\ blackboard' = blackboard
    ]_vars

\* A plan through an action whose effect depends on dry_run was run to its
\* end: the caller's blackboard differs from the state the search foresaw.
C26_Witness ==
  /\ pc = "returned" /\ m_plan = <<>> /\ applied # <<>>
  /\ calls.dry > 0 /\ calls.commit = Len(applied)
  /\ blackboard.wood # nodes[found].blackboard.wood

\* C27: planner pushes a successor only through an action whose
\* check_preconditions holds in the state of the node it expands; and when
\* the returned plan is run with run_next from a copy of initial, the
\* effects not depending on dry_run, check_preconditions of every action
\* holds on the blackboard it is applied to.
C27_Applicability ==
  [][
      /\ pc = "search" =>
           \A k \in Pushed :
             check_preconditions(actions[nodes'[k].action_taken_idx],
                                 nodes[nodes'[k].parent].blackboard)
      /\ (RunsNext /\ m_plan # <<>> /\ DryRunAgnostic(m_actions)) =>
           check_preconditions(m_actions[Head(m_plan)], blackboard)
    ]_vars

\* A plan of several steps was run to its end, one of its actions being one
\* that could not be applied to the initial blackboard.
C27_Witness ==
  /\ pc = "returned" /\ m_plan = <<>> /\ Len(applied) >= 2
  /\ DryRunAgnostic(m_actions)
  /\ \E k \in DOMAIN applied : ~check_preconditions(m_actions[applied[k]], initial)

\* C28: an iteration pops a node whose cost is the least of the frontier's,
\* and the frontier loses that node alone; a node is pushed with the cost of
\* its parent plus cost() of its action in the parent's state; and when no
\* action has a negative cost, every node left in the frontier after a pop,
\* the next one popped among them, costs at least what the popped one did:
\* the costs of the popped nodes never decrease.  Nothing but an iteration
\* changes the frontier.
C28_FrontierOrder ==
  [][
      /\ Pops =>
           LET current == queue_top(open_set) IN
           /\ current \in Frontier
           /\ \A m \in Frontier : nodes[current].cost <= nodes[m].cost
           /\ Frontier' = (Frontier \ {current}) \cup Pushed
           /\ Len(open_set') = Len(open_set) - 1 + Cardinality(Pushed)
           /\ \A k \in Pushed :
                nodes'[k].cost = nodes[nodes'[k].parent].cost
                                   + cost(actions[nodes'[k].action_taken_idx],
                                          nodes[nodes'[k].parent].blackboard)
           /\ NonNegativeCosts(actions) =>
                \A m \in Frontier' : nodes'[m].cost >= nodes[current].cost
      /\ ~Pops => open_set' = open_set
    ]_vars

\* The search goes on, no cost being negative, having popped a node before
\* a dearer one that was pushed earlier and is still in the frontier.
C28_Witness ==
  /\ pc = "search" /\ pops >= 3
  /\ NonNegativeCosts(actions)
  /\ \E i \in Frontier : \E j \in Popped : j > i /\ nodes[j].cost < nodes[i].cost

(***************************************************************************)
(* The life cycle of a state: which hook may follow which.                 *)
(***************************************************************************)
\* A state is live from its enter to its exit, and active when live and not
\* paused.
Live(last) == last \in {"enter", "pause", "resume"}
Active(last) == last \in {"enter", "resume"}

\* The hook may follow last in a state's life: enter begins a life, pause
\* and resume alternate in it, pause first, and exit ends it unpaused.
Follows(last, hook) ==
  CASE hook = "enter" -> ~Live(last)
    [] hook = "pause" -> Active(last)
    [] hook = "resume" -> last = "pause"
    [] hook = "exit" -> Active(last)
    [] hook = "update" -> Active(last)

\* Every call of hs follows what its state got before, last being what the
\* states got before hs.
RECURSIVE InOrder(_, _)
InOrder(last, hs) ==
  \/ hs = <<>>
  \/ /\ Follows(last[Head(hs)[2]], Head(hs)[1])
     /\ InOrder(received_from(last, <<Head(hs)>>), Tail(hs))

HooksOf(hs, hook) == SelectSeq(hs, LAMBDA h : h[1] = hook)

\* C29: whatever was pushed, a state or nullptr, the state that update is
\* called on is not paused: it got no pause since its last enter or resume.
C29_PauseDiscipline ==
  (op = <<"update">> /\ hooks # <<>>) => last_hook[hooks[1][2]] # "pause"

\* C30: with state objects pushed only, each entry of the stack an object of
\* its own: a push enters the pushed state, once, which was not live; a pop
\* exits the state it removes, once, and no other call exits or enters a
\* state; every hook follows what its state got before (pause and resume
\* alternate between enter and exit, pause first); the stack grows by one
\* with every push and shrinks by one with every pop made on a non-empty
\* stack, and by nothing else; and so the states on the stack are the live
\* ones, the top one active and the others paused.
C30_LifecycleBalance ==
  [][
      /\ InOrder(last_hook, hooks')
      /\ Len(HooksOf(hooks', "enter")) = IF OpName(op') = "push_state" THEN 1 ELSE 0
      /\ Len(HooksOf(hooks', "exit")) =
           IF OpName(op') = "pop_state" /\ m_state_stack # <<>> THEN 1 ELSE 0
      /\ OpName(op') = "push_state" =>
           /\ HooksOf(hooks', "enter") = <<<<"enter", op'[2]>>>>
           /\ Len(m_state_stack') = Len(m_state_stack) + 1
      /\ OpName(op') = "pop_state" =>
           /\ m_state_stack # <<>> =>
                HooksOf(hooks', "exit") = <<<<"exit", back(m_state_stack)>>>>
           /\ Len(m_state_stack') = IF m_state_stack # <<>>
                                    THEN Len(m_state_stack) - 1 ELSE 0
      /\ OpName(op') = "update" => Len(m_state_stack') = Len(m_state_stack)
      /\ \A s \in StateVals :
           Live(last_hook'[s]) <=> \E i \in DOMAIN m_state_stack' : m_state_stack'[i] = s
      /\ \A i \in 1..(Len(m_state_stack') - 1) :
           last_hook'[m_state_stack'[i]] = "pause"
      /\ m_state_stack' # <<>> => Active(last_hook'[back(m_state_stack')])
    ]_vars

\* A state was pushed and popped, and two states are on the stack since, the
\* one below paused and the top one entered and updated.
C30_Witness ==
  /\ Len(m_state_stack) = 2
  /\ \E s \in StateVals : last_hook[s] = "exit"
  /\ last_hook[m_state_stack[1]] = "pause"
  /\ last_hook[m_state_stack[2]] = "enter"
  /\ op = <<"update">>

\* Every call of hs but an enter is made on a state that is live then, and
\* every enter on a state that is not; last is what the states got before.
RECURSIVE WhileLive(_, _)
WhileLive(last, hs) ==
  \/ hs = <<>>
  \/ /\ Head(hs)[1] = "enter" <=> ~Live(last[Head(hs)[2]])
     /\ WhileLive(received_from(last, <<Head(hs)>>), Tail(hs))

\* C31: in the simple machine a state gets update, pause, resume and exit
\* only between its enter and its exit, and only as the current state: the
\* hooks of pause, resume and update go to the current state, set_state
\* exits the state that was current and enters and pauses the one that
\* becomes current; the live states are the current state alone, one at
\* most; and on a machine without a state pause, resume and update call no
\* hook, pause and resume still setting the paused flag.
C31_SimpleLifecycle ==
  [][
      /\ WhileLive(last_hook, hooks')
      /\ \A k \in DOMAIN hooks' :
           hooks'[k][2] = IF hooks'[k][1] \in {"enter", "pause"}
                             /\ OpName(op') = "set_state"
                          THEN m_current_state' ELSE m_current_state
      /\ OpName(op') # "set_state" => m_current_state' = m_current_state
      /\ \A s \in StateVals : Live(last_hook'[s]) <=> s = m_current_state'
      /\ (m_current_state = nullptr /\ OpName(op') # "set_state") =>
           /\ hooks' = <<>>
           /\ m_paused' = CASE OpName(op') = "pause" -> TRUE
                            [] OpName(op') = "resume" -> FALSE
                            [] OpName(op') = "update" -> m_paused
    ]_vars

\* A state was set and cleared, and the machine, without a state, was paused.
C31_Witness ==
  /\ m_current_state = nullptr
  /\ m_paused
  /\ op = <<"pause">>
  /\ hooks = <<>>
  /\ \E s \in StateVals : last_hook[s] = "exit"

\* The first action of the evaluator, in list order, whose score on bb is the
\* largest.
FirstBest(bb) ==
  CHOOSE i \in DOMAIN evaluator :
    /\ \A j \in DOMAIN evaluator : score(evaluator[j], bb) <= score(evaluator[i], bb)
    /\ \A j \in 1..(i - 1) : score(evaluator[j], bb) < score(evaluator[i], bb)

\* C32: a run of a non-empty evaluator calls score once on every action, in
\* list order, and then apply on one action only, the first in list order of
\* those whose score is the largest; a run of an evaluator without actions
\* calls nothing and leaves the blackboard as it was.
C32_SelectionDetail ==
  [][runs' = runs + 1 =>
       IF evaluator = <<>>
       THEN utility_calls' = <<>> /\ utility_blackboard' = utility_blackboard
       ELSE /\ utility_calls' =
                 [i \in DOMAIN evaluator |-> <<"score", i>>]
                   \o <<<<"apply", FirstBest(utility_blackboard)>>>>
            /\ utility_blackboard' =
                 apply(evaluator[FirstBest(utility_blackboard)], utility_blackboard)
    ]_vars

\* The leaves the last evaluate ran, in the order they returned, each as
\* the number of the child of the composite it is found under.
LeafOrder(tr, pos) ==
  LET ls == SelectSeq(tr, LAMBDA e : NodeAt(root, e[1]).kind \in {"task", "check"})
  IN [k \in DOMAIN ls |-> ls[k][1][pos]]

\* For every list l of leaves, neg(seq(l)) returns what sel of the negs of
\* the leaves of l returns, having evaluated the same leaves in the same
\* order and left the same blackboard.
SeqDuality ==
  \A l \in Lists(Leaves, MaxChildren) :
    root' = neg(seq(l)) =>
      LET dual == evaluate(sel(Negated(l)), <<>>,
                           [bb |-> bt_blackboard, trace |-> <<>>])
          ran == SelectSeq(dual.trace, LAMBDA e : Len(e[1]) = 2)
      IN /\ bt_state' = dual.state
         /\ bt_blackboard' = dual.bb
         /\ LeafOrder(trace', 2) = [k \in DOMAIN ran |-> ran[k][1][1]]

\* For every node x, neg(neg(x)) returns what x returns.
DoubleNegation ==
  \A x \in InnerNodes :
    root' = neg(neg(x)) =>
      bt_state' = evaluate(x, <<>>, [bb |-> bt_blackboard, trace |-> <<>>]).state

\* C33: for every list of children, neg(seq(children)) and the sel of
\* neg(child) for each child return the same result and evaluate the same
\* prefix of the children in the same order; and neg(neg(x)) returns the
\* result of x.
C33_Duality ==
  [][ticks' = ticks + 1 => SeqDuality /\ DoubleNegation]_vars

\* The first half alone, which holds.
SeqDualityAtEveryTick ==
  [][ticks' = ticks + 1 => SeqDuality]_vars
====
